---- MODULE Spec2Model ----
(***************************************************************************)
(* Model of the PIB archive scraper (Scrapper/scrape.py): the main         *)
(* coroutine with its start-up, per-year collection phase, per-year        *)
(* download phase (asyncio.gather over process_single_release tasks that   *)
(* share one asyncio.Semaphore) and its clean-up, and the two output       *)
(* folders written by save_page_as_pdf.                                    *)
(*                                                                         *)
(* Every `await` of the source is a scheduling point; the code between two *)
(* awaits runs atomically on the event loop and is one action here.        *)
(* Strings are sequences of one-character strings, so that the file name   *)
(* is built the way the f-string of the source builds it.                  *)
(***************************************************************************)
EXTENDS Integers, Sequences, FiniteSets, TLC

\* ------------------------------------------------------------------ bounds
\* Releases collected over the whole run (caps the collection loop).
MaxReleases == 3
\* Dates of a year that the collection phase visits (the source visits every
\* calendar date up to today).
NumDates == 1
\* Calls of the browser, the driver or the file system that fail in one run.
MaxFaults == 2
\* Longest release id drawn for the file-name specification.
MaxRelidLen == 2
\* Pieces a text is put together from in the specifications of the text
\* functions of Train_set.py.
MaxPieces == 3
\* Files in the list of the application.
MaxFiles == 2

\* --------------------------------------------------------- configuration
START_YEAR == 2004
\* datetime.now().year: the run is taken to happen in the second year.
CURRENT_YEAR == 2005
END_YEAR == CURRENT_YEAR
\* The source sets 1000; the model keeps the semaphore but scales its size so
\* that a year can collect more releases than there are permits.
CONCURRENCY_LIMIT == 2
\* Train_set.py: the characters of the text that go into the prompt (line
\* 300), the shortest text sent to the API (line 288), the sample for the
\* language detection (line 417) and its shortest useful length (line 418).
PROMPT_TEXT_CHARS == 40000
MIN_TEXT_CHARS == 50
LANG_SAMPLE_CHARS == 1500
MIN_SAMPLE_CHARS == 20

\* ---------------------------------------------------------------- strings
DigitChars == <<"0", "1", "2", "3", "4", "5", "6", "7", "8", "9">>

\* str(n) for a non-negative integer.
RECURSIVE str(_)
str(n) == IF n < 10 THEN <<DigitChars[n + 1]>>
          ELSE str(n \div 10) \o <<DigitChars[(n % 10) + 1]>>

\* s.zfill(width)
RECURSIVE zfill(_, _)
zfill(s, width) == IF Len(s) >= width THEN s ELSE zfill(<<"0">> \o s, width)

\* item_id and item_id.isdigit()
isdigit(s) == /\ Len(s) > 0
              /\ \A k \in 1..Len(s) : \E d \in 1..Len(DigitChars) : s[k] = DigitChars[d]

month_str(month) == zfill(str(month), 2)
day_str(day) == zfill(str(day), 2)

\* A plausible slip: the day is left out of the name.
pdf_filename_noday(relid, year, month, day) ==
    <<"P", "I", "B", "_">> \o relid \o str(year) \o month_str(month)
        \o <<"_">> \o <<".", "p", "d", "f">>

\* f"PIB_{relid}{year}{month_str}_{day_str}.pdf"
pdf_filename(relid, year, month, day) ==
    <<"P", "I", "B", "_">> \o relid \o str(year) \o month_str(month)
        \o <<"_">> \o day_str(day) \o <<".", "p", "d", "f">>

\* os.path.join(OUTPUT_DIR, str(year), month_str, pdf_filename), as the
\* triple of its components below OUTPUT_DIR.
pdf_path(relid, year, month, day) ==
    <<str(year), month_str(month), pdf_filename(relid, year, month, day)>>

\* --------------------------------------------------------------- calendar
\* calendar.monthrange(year, month)[1]
IsLeap(year) == (year % 4 = 0) /\ ((year % 100 # 0) \/ (year % 400 = 0))
DaysInMonth(year, month) ==
    IF month = 2 THEN (IF IsLeap(year) THEN 29 ELSE 28)
    ELSE IF month \in {4, 6, 9, 11} THEN 30 ELSE 31

\* The k-th date visited by the nested month/day loops of a year.
RECURSIVE DateFrom(_, _, _)
DateFrom(year, month, k) ==
    IF k <= DaysInMonth(year, month) THEN [month |-> month, day |-> k]
    ELSE DateFrom(year, month + 1, k - DaysInMonth(year, month))
DateOf(year, k) == DateFrom(year, 1, k)

\* ids the archive page may carry on a release item: a release id and an id
\* that is not a number. Two items of a date may carry the same id.
PageItemIds == {<<"7">>, <<"x">>}

VARIABLES
    pc,                \* position of main()
    exit_path,         \* how main() left its try block
    playwright,        \* handles of main(): "none", "open", "closed", "close_failed"
    browser,
    context,
    year,              \* loop variable of the year loop
    date_idx,          \* index of the date the collection loop is at
    collected,         \* releases appended over the whole run (bounded)
    collection_errors, \* dates of the year whose collection raised
    releases_for_year,
    tasks,             \* the process_single_release coroutines handed to gather
    semaphore,         \* value of the asyncio.Semaphore
    date_files,        \* paths present below OUTPUT_DIR
    collective_files,  \* names present in COLLECTIVE_OUTPUT_DIR
    success_count,
    fail_count,
    skipped_count,
    faults,            \* failed calls so far (bounded by MaxFaults)
    name_in,           \* file-name specification: two argument tuples
    name_out,          \* and the names built from them
    call_in,           \* Train_set.py, a call of a text function: its argument
    call_out,          \* and what it returned
    \* Train_set.py, the application:
    gui_pc,            \* position of process_files, "idle" between handlers
    pdf_files,
    processing_active,
    processing_stats,
    log_file_handle,   \* "None", or the state of the file object: "open", "closed"
    log_file_path,     \* "None" or "set"
    jsonl_outfile,     \* "None", "open", "closed"
    dataset,           \* the lines of the dataset file
    requests,          \* the calls of generate_content of the session
    file_index,        \* i + 1 of the loop over pdf_files
    extracted_text,    \* of the file the loop is at, once extracted
    answer,            \* summary and topics for it, once returned
    detection,         \* what detect() did for the file the loop is at or has skipped
    exit_how,          \* how the last process_files ended once it was active
    notice,            \* the last message box or dialog outcome
    final_status_msg   \* the counts of the final status message

handles == <<playwright, browser, context>>
loop == <<year, date_idx, collected, collection_errors, releases_for_year>>
folders == <<date_files, collective_files>>
counts == <<success_count, fail_count, skipped_count>>
name_vars == <<name_in, name_out>>
call_vars == <<call_in, call_out>>
gui_vars == <<gui_pc, pdf_files, processing_active, processing_stats, log_file_handle,
              log_file_path, jsonl_outfile, dataset, requests, file_index,
              extracted_text, answer, detection, exit_how, notice, final_status_msg>>
train_vars == <<call_vars, gui_vars>>
vars == <<pc, exit_path, handles, loop, tasks, semaphore, folders, counts, faults,
          name_vars, train_vars>>

\* ------------------------------------------------------------------- state
NameIdle == <<>>

\* A first run: lines 351-352 have created the two output folders, empty.
InitScraper ==
    /\ pc = "start"
    /\ exit_path = "none"
    /\ playwright = "none"
    /\ browser = "none"
    /\ context = "none"
    /\ year = START_YEAR
    /\ date_idx = 1
    /\ collected = 0
    /\ collection_errors = 0
    /\ releases_for_year = <<>>
    /\ tasks = <<>>
    /\ semaphore = CONCURRENCY_LIMIT
    /\ date_files = {}
    /\ collective_files = {}
    /\ success_count = 0
    /\ fail_count = 0
    /\ skipped_count = 0
    /\ faults = 0

\* No call of a text function of Train_set.py is under way.
CallIdle == <<>>
\* None of Python.
None == <<>>

\* reset_stats_and_log (lines 77-84)
FreshStats ==
    [total_files_in_list |-> 0, processed_count |-> 0,
     files_attempted |-> <<>>, per_file_details |-> <<>>]

\* A call that was not made, and the detection for a file without text.
NotCalled == "not called"
NoText == "no text"

\* After __init__ (lines 56-73).
InitApp ==
    /\ gui_pc = "idle"
    /\ pdf_files = <<>>
    /\ processing_active = FALSE
    /\ processing_stats = FreshStats
    /\ log_file_handle = "None"
    /\ log_file_path = "None"
    /\ jsonl_outfile = "None"
    /\ dataset = <<>>
    /\ requests = <<>>
    /\ file_index = 1
    /\ extracted_text = None
    /\ answer = None
    /\ detection = NoText
    /\ exit_how = "none"
    /\ notice = "none"
    /\ final_status_msg = None

\* Train_set.py: the application is constructed, no text function is called.
InitTrainIdle ==
    /\ call_in = CallIdle
    /\ call_out = CallIdle
    /\ InitApp

Init ==
    /\ InitScraper
    /\ name_in = NameIdle
    /\ name_out = NameIdle
    /\ InitTrainIdle

\* A call of the browser, the driver or the file system fails (times out or
\* raises); a run sees at most MaxFaults such failures.
Fails == /\ faults < MaxFaults
         /\ faults' = faults + 1

Succeeds == UNCHANGED faults

\* ------------------------------------------------------- main(): start-up
\* An exception in the try block of main() is caught at line 325 and leads
\* to the finally block.
Abort == /\ Fails
         /\ exit_path' = "exception"
         /\ pc' = "close_context"

\* playwright = await async_playwright().start()
StartPlaywright ==
    /\ pc = "start"
    /\ \/ /\ Succeeds
          /\ playwright' = "open"
          /\ pc' = "launch"
          /\ UNCHANGED exit_path
       \/ /\ Abort
          /\ UNCHANGED playwright
    /\ UNCHANGED <<browser, context, loop, tasks, semaphore, folders, counts, name_vars, train_vars>>

\* browser = await playwright.chromium.launch(headless=True)
LaunchBrowser ==
    /\ pc = "launch"
    /\ \/ /\ Succeeds
          /\ browser' = "open"
          /\ pc' = "new_context"
          /\ UNCHANGED exit_path
       \/ /\ Abort
          /\ UNCHANGED browser
    /\ UNCHANGED <<playwright, context, loop, tasks, semaphore, folders, counts, name_vars, train_vars>>

\* context = await browser.new_context(...)
NewContext ==
    /\ pc = "new_context"
    /\ \/ /\ Succeeds
          /\ context' = "open"
          /\ pc' = "open_archive"
          /\ UNCHANGED exit_path
       \/ /\ Abort
          /\ UNCHANGED context
    /\ UNCHANGED <<playwright, browser, loop, tasks, semaphore, folders, counts, name_vars, train_vars>>

\* page = await context.new_page(); await page.goto(ARCHIVE_URL, ...)
OpenArchive ==
    /\ pc = "open_archive"
    /\ \/ /\ Succeeds
          /\ pc' = "english_releases"
          /\ UNCHANGED exit_path
       \/ Abort
    /\ UNCHANGED <<handles, loop, tasks, semaphore, folders, counts, name_vars, train_vars>>

\* Click 'English Releases'; a timeout or any other exception returns early.
ClickEnglishReleases ==
    /\ pc = "english_releases"
    /\ \/ /\ Succeeds
          /\ pc' = "year"
          /\ UNCHANGED exit_path
       \/ /\ Fails
          /\ exit_path' = "early_return"
          /\ pc' = "close_context"
    /\ UNCHANGED <<handles, loop, tasks, semaphore, folders, counts, name_vars, train_vars>>

\* ------------------------------------------------- main(): the year loop
\* for year in range(START_YEAR, END_YEAR + 1): the year's list and error
\* count start empty.
YearStart ==
    /\ pc = "year"
    /\ releases_for_year' = <<>>
    /\ collection_errors' = 0
    /\ date_idx' = 1
    /\ pc' = "collect"
    /\ UNCHANGED <<exit_path, handles, year, collected, tasks, semaphore, folders,
                   counts, faults, name_vars, train_vars>>

\* One release item of the date's result list: its id is appended when it is
\* a number, and only logged otherwise.
CollectItem ==
    /\ pc = "collect"
    /\ date_idx <= NumDates
    /\ collected < MaxReleases
    /\ \E item_id \in PageItemIds :
          IF isdigit(item_id)
          THEN /\ releases_for_year' =
                     Append(releases_for_year,
                            [relid |-> item_id, year |-> year,
                             month |-> DateOf(year, date_idx).month,
                             day |-> DateOf(year, date_idx).day])
               /\ collected' = collected + 1
          ELSE UNCHANGED <<releases_for_year, collected>>
    /\ UNCHANGED <<pc, exit_path, handles, year, date_idx, collection_errors, tasks,
                   semaphore, folders, counts, faults, name_vars, train_vars>>

\* The date's result list is exhausted, or the page shows no releases.
DateDone ==
    /\ pc = "collect"
    /\ date_idx <= NumDates
    /\ date_idx' = date_idx + 1
    /\ UNCHANGED <<pc, exit_path, handles, year, collected, collection_errors,
                   releases_for_year, tasks, semaphore, folders, counts, faults,
                   name_vars, train_vars>>

\* A timeout or another exception while collecting the date: the date is
\* skipped, what was appended stays.
DateError ==
    /\ pc = "collect"
    /\ date_idx <= NumDates
    /\ Fails
    /\ collection_errors' = collection_errors + 1
    /\ date_idx' = date_idx + 1
    /\ UNCHANGED <<pc, exit_path, handles, year, collected, releases_for_year, tasks,
                   semaphore, folders, counts, name_vars, train_vars>>

\* The coroutine object process_single_release(semaphore, context, release_info).
NewTask(release_info) ==
    [relid |-> release_info.relid, year |-> release_info.year,
     month |-> release_info.month, day |-> release_info.day,
     pc |-> "wait",          \* "wait", "new_page", "goto", "load", "pdf", "closing", "done"
     page |-> "none",        \* print_page: "none", "open", "closed", "close_failed"
     saved |-> FALSE,        \* the local `saved`
     pdf_filename |-> <<>>,  \* locals of save_page_as_pdf, once it is called
     pdf_path |-> <<>>,
     result |-> "pending",   \* what gather gets: "True", "False", "Exception"
     found |-> "unchecked",  \* what save_page_as_pdf met on disk when it was called
     fault |-> "none",       \* the call of the try block that raised
     copy_failed |-> FALSE,  \* shutil.copy2 raised
     new_page_calls |-> 0, goto_calls |-> 0, pdf_calls |-> 0]

\* Variant: the download tasks are started without waiting for the last date.
PhaseOneFinished_early == date_idx >= NumDates

\* The month and day loops of the year are over.
PhaseOneFinished == date_idx > NumDates

\* Phase 2 starts: a fresh semaphore and one task per collected release,
\* handed to asyncio.gather. A year without releases skips the phase.
StartDownloads ==
    /\ pc = "collect"
    /\ PhaseOneFinished
    /\ IF releases_for_year # <<>>
       THEN /\ semaphore' = CONCURRENCY_LIMIT
            /\ tasks' = [i \in 1..Len(releases_for_year) |-> NewTask(releases_for_year[i])]
            /\ pc' = "gather"
       ELSE /\ pc' = "year_end"
            /\ UNCHANGED <<semaphore, tasks>>
    /\ UNCHANGED <<exit_path, handles, loop, folders, counts, faults, name_vars, train_vars>>

Count(value) == Cardinality({i \in 1..Len(tasks) : tasks[i].result = value})

\* results = await asyncio.gather(*tasks, return_exceptions=True)
GatherReturns == \A i \in 1..Len(tasks) : tasks[i].pc = "done"

\* gather returns and the results are counted for the year's summary.
FinishDownloads ==
    /\ pc = "gather"
    /\ GatherReturns
    /\ fail_count' = Count("Exception")
    /\ success_count' = Count("True")
    /\ skipped_count' = Count("False")
    /\ pc' = "year_end"
    /\ UNCHANGED <<exit_path, handles, loop, tasks, semaphore, folders, faults,
                   name_vars, train_vars>>

\* End of the year's iteration: sleep and go to the next year, or leave the
\* loop after the last one. The year's tasks and counts are not used again.
YearEnd ==
    /\ pc = "year_end"
    /\ IF year < END_YEAR
       THEN /\ year' = year + 1
            /\ pc' = "year"
            /\ UNCHANGED exit_path
       ELSE /\ exit_path' = "normal"
            /\ pc' = "close_context"
            /\ UNCHANGED year
    /\ tasks' = <<>>
    /\ releases_for_year' = <<>>
    /\ success_count' = 0
    /\ fail_count' = 0
    /\ skipped_count' = 0
    /\ UNCHANGED <<handles, date_idx, collected, collection_errors, semaphore, folders,
                   faults, name_vars, train_vars>>

\* An exception in the year loop that no inner handler catches.
UnexpectedError ==
    /\ pc = "year_end"
    /\ Abort
    /\ tasks' = <<>>
    /\ releases_for_year' = <<>>
    /\ success_count' = 0
    /\ fail_count' = 0
    /\ skipped_count' = 0
    /\ UNCHANGED <<handles, year, date_idx, collected, collection_errors, semaphore,
                   folders, name_vars, train_vars>>

\* ----------------------------------------------- process_single_release
TaskIds == 1..Len(tasks)
Name(t) == pdf_filename(t.relid, t.year, t.month, t.day)
Path(t) == pdf_path(t.relid, t.year, t.month, t.day)

task_unchanged == UNCHANGED <<pc, exit_path, handles, loop, counts, name_vars, train_vars>>

\* Variant: the semaphore is entered without looking at its value.
SemaphoreFree_always == TRUE

\* asyncio.Semaphore.acquire proceeds only while the value is positive.
SemaphoreFree == semaphore > 0

\* async with semaphore: the task takes a permit. gather starts the tasks in
\* list order and the semaphore wakes its waiters first come, first served,
\* so permits are taken in list order.
Acquire(i) ==
    /\ tasks[i].pc = "wait"
    /\ \A j \in 1..(i - 1) : tasks[j].pc # "wait"
    /\ SemaphoreFree
    /\ semaphore' = semaphore - 1
    /\ tasks' = [tasks EXCEPT ![i].pc = "new_page"]
    /\ Succeeds
    /\ UNCHANGED <<date_files, collective_files>>
    /\ task_unchanged

\* print_page = await context.new_page()
NewPageOpens(i) ==
    /\ tasks[i].pc = "new_page"
    /\ tasks' = [tasks EXCEPT ![i].pc = "goto",
                              ![i].page = "open",
                              ![i].new_page_calls = @ + 1]
    /\ Succeeds
    /\ UNCHANGED <<semaphore, date_files, collective_files>>
    /\ task_unchanged

\* Variant: the permit is not given back when new_page raised.
NewPageFails_keeps(i) ==
    /\ tasks[i].pc = "new_page"
    /\ Fails
    /\ tasks' = [tasks EXCEPT ![i].pc = "done",
                              ![i].fault = "new_page",
                              ![i].result = "False",
                              ![i].new_page_calls = @ + 1]
    /\ UNCHANGED <<semaphore, date_files, collective_files>>
    /\ task_unchanged

\* new_page raises: the handler logs, the finally block has no page to close,
\* the permit is given back and the task returns saved (False).
NewPageFails(i) ==
    /\ tasks[i].pc = "new_page"
    /\ Fails
    /\ tasks' = [tasks EXCEPT ![i].pc = "done",
                              ![i].fault = "new_page",
                              ![i].result = "False",
                              ![i].new_page_calls = @ + 1]
    /\ semaphore' = semaphore + 1
    /\ UNCHANGED <<date_files, collective_files>>
    /\ task_unchanged

\* Variant: a failed navigation is tried again.
GotoFails_retry(i) ==
    /\ tasks[i].pc = "goto"
    /\ Fails
    /\ tasks' = [tasks EXCEPT ![i].goto_calls = @ + 1]
    /\ UNCHANGED <<semaphore, date_files, collective_files>>
    /\ task_unchanged

\* print_page.goto times out or raises: logged, on to the finally block.
GotoFails(i) ==
    /\ tasks[i].pc = "goto"
    /\ Fails
    /\ tasks' = [tasks EXCEPT ![i].pc = "closing",
                              ![i].fault = "goto",
                              ![i].goto_calls = @ + 1]
    /\ UNCHANGED <<semaphore, date_files, collective_files>>
    /\ task_unchanged

\* os.path.exists(collective_pdf_path)
ExistsCollective(name) == name \in collective_files

\* Variant: the secondary check is left out.
ExistsDate_never(path) == FALSE

\* os.path.exists(pdf_path)
ExistsDate(path) == path \in date_files

\* Variant: the copy is reported but nothing reaches the collective folder.
AfterCopy_lost(name, ok) == collective_files

\* shutil.copy2(pdf_path, collective_pdf_path) inside its try/except: the
\* collective folder afterwards, ok = FALSE when copy2 raised.
AfterCopy(name, ok) == IF ok THEN collective_files \cup {name} ELSE collective_files

\* Whether copy2 works (ok) or raises, which counts as a failed call.
Copy(ok) == IF ok THEN Succeeds ELSE Fails

\* What is on disk for the task's release.
OnDisk(t) == IF Name(t) \in collective_files THEN "collective"
             ELSE IF Path(t) \in date_files THEN "date"
             ELSE "absent"

\* goto returns and save_page_as_pdf is called; it runs without suspension
\* up to its first await: the two existence checks, and the copy of a PDF
\* found in the date-wise folder only.
GotoReturns(i) ==
    /\ tasks[i].pc = "goto"
    /\ LET t == [tasks[i] EXCEPT !.goto_calls = @ + 1,
                                 !.found = OnDisk(tasks[i]),
                                 !.pdf_filename = Name(tasks[i]),
                                 !.pdf_path = Path(tasks[i])]
       IN IF ExistsCollective(t.pdf_filename)
          THEN /\ tasks' = [tasks EXCEPT ![i] = [t EXCEPT !.pc = "closing"]]
               /\ Succeeds
               /\ UNCHANGED collective_files
          ELSE IF ExistsDate(t.pdf_path)
          THEN \E ok \in BOOLEAN :
                  /\ Copy(ok)
                  /\ collective_files' = AfterCopy(t.pdf_filename, ok)
                  /\ tasks' = [tasks EXCEPT ![i] = [t EXCEPT !.pc = "closing",
                                                             !.copy_failed = ~ok]]
          ELSE /\ tasks' = [tasks EXCEPT ![i] = [t EXCEPT !.pc = "load"]]
               /\ Succeeds
               /\ UNCHANGED collective_files
    /\ UNCHANGED <<semaphore, date_files>>
    /\ task_unchanged

\* wait_for_load_state returns; after the pause and the style tag (whose
\* failure is only logged) page.pdf is called.
LoadReturns(i) ==
    /\ tasks[i].pc = "load"
    /\ tasks' = [tasks EXCEPT ![i].pc = "pdf", ![i].pdf_calls = @ + 1]
    /\ Succeeds
    /\ UNCHANGED <<semaphore, date_files, collective_files>>
    /\ task_unchanged

\* wait_for_load_state times out: save_page_as_pdf logs and returns False.
LoadFails(i) ==
    /\ tasks[i].pc = "load"
    /\ Fails
    /\ tasks' = [tasks EXCEPT ![i].pc = "closing", ![i].fault = "load"]
    /\ UNCHANGED <<semaphore, date_files, collective_files>>
    /\ task_unchanged

\* Variant: page.pdf writes into the collective folder and the copy goes to
\* the date-wise folder.
PdfReturns_collective(i) ==
    /\ tasks[i].pc = "pdf"
    /\ collective_files' = collective_files \cup {tasks[i].pdf_filename}
    /\ \E ok \in BOOLEAN :
          /\ Copy(ok)
          /\ date_files' = IF ok THEN date_files \cup {tasks[i].pdf_path} ELSE date_files
          /\ tasks' = [tasks EXCEPT ![i].pc = "closing",
                                    ![i].saved = TRUE,
                                    ![i].copy_failed = ~ok]
    /\ UNCHANGED semaphore
    /\ task_unchanged

\* page.pdf has written the date-wise file; the copy to the collective
\* folder follows at once, and True is returned whether or not it raised.
PdfReturns(i) ==
    /\ tasks[i].pc = "pdf"
    /\ date_files' = date_files \cup {tasks[i].pdf_path}
    /\ \E ok \in BOOLEAN :
          /\ Copy(ok)
          /\ collective_files' = AfterCopy(tasks[i].pdf_filename, ok)
          /\ tasks' = [tasks EXCEPT ![i].pc = "closing",
                                    ![i].saved = TRUE,
                                    ![i].copy_failed = ~ok]
    /\ UNCHANGED semaphore
    /\ task_unchanged

\* page.pdf times out or raises: save_page_as_pdf logs and returns False.
PdfFails(i) ==
    /\ tasks[i].pc = "pdf"
    /\ Fails
    /\ tasks' = [tasks EXCEPT ![i].pc = "closing", ![i].fault = "pdf"]
    /\ UNCHANGED <<semaphore, date_files, collective_files>>
    /\ task_unchanged

\* Variant: the except clauses are missing, a fault leaves the task.
Returned_uncaught(t) == IF t.fault # "none" THEN "Exception"
                        ELSE IF t.saved THEN "True" ELSE "False"

\* return saved, after the except clauses have swallowed any fault.
Returned(t) == IF t.saved THEN "True" ELSE "False"

\* Variant: the task leaves the semaphore block without closing its tab.
ClosePage_left(i) ==
    /\ tasks[i].pc = "closing"
    /\ Succeeds
    /\ tasks' = [tasks EXCEPT ![i].pc = "done",
                              ![i].result = Returned(tasks[i])]
    /\ semaphore' = semaphore + 1
    /\ UNCHANGED <<date_files, collective_files>>
    /\ task_unchanged

\* The finally block: await print_page.close(), which is not guarded; when
\* it raises, the exception leaves the task. Either way the permit is given
\* back on leaving the async with block.
ClosePage(i) ==
    /\ tasks[i].pc = "closing"
    /\ \/ /\ Succeeds
          /\ tasks' = [tasks EXCEPT ![i].pc = "done",
                                    ![i].page = "closed",
                                    ![i].result = Returned(tasks[i])]
       \/ /\ Fails
          /\ tasks' = [tasks EXCEPT ![i].pc = "done",
                                    ![i].page = "close_failed",
                                    ![i].result = "Exception"]
    /\ semaphore' = semaphore + 1
    /\ UNCHANGED <<date_files, collective_files>>
    /\ task_unchanged

\* --------------------------------------------------- main(): the finally
\* close() or stop() of a handle that was created: it works, or it raises
\* and the error is logged. A handle that was never created is left alone.
Closed(handle, after) ==
    IF handle = "open"
    THEN \/ /\ after = "closed"
            /\ Succeeds
         \/ /\ after = "close_failed"
            /\ Fails
    ELSE /\ after = handle
         /\ Succeeds

HandleStates == {"none", "open", "closed", "close_failed"}

\* Variant: a failing context.close() is not caught and ends the clean-up.
CloseContext_unguarded ==
    /\ pc = "close_context"
    /\ \E after \in HandleStates :
          /\ Closed(context, after)
          /\ context' = after
          /\ pc' = IF after = "close_failed" THEN "done" ELSE "close_browser"
    /\ UNCHANGED <<exit_path, playwright, browser, loop, tasks, semaphore, folders,
                   counts, name_vars, train_vars>>

\* if context: try: await context.close() except: log
CloseContext ==
    /\ pc = "close_context"
    /\ \E after \in HandleStates :
          /\ Closed(context, after)
          /\ context' = after
    /\ pc' = "close_browser"
    /\ UNCHANGED <<exit_path, playwright, browser, loop, tasks, semaphore, folders,
                   counts, name_vars, train_vars>>

\* if browser: try: await browser.close() except: log
CloseBrowser ==
    /\ pc = "close_browser"
    /\ \E after \in HandleStates :
          /\ Closed(browser, after)
          /\ browser' = after
    /\ pc' = "stop_playwright"
    /\ UNCHANGED <<exit_path, playwright, context, loop, tasks, semaphore, folders,
                   counts, name_vars, train_vars>>

\* if playwright: try: await playwright.stop() except: log
StopPlaywright ==
    /\ pc = "stop_playwright"
    /\ \E after \in HandleStates :
          /\ Closed(playwright, after)
          /\ playwright' = after
    /\ pc' = "done"
    /\ UNCHANGED <<exit_path, browser, context, loop, tasks, semaphore, folders,
                   counts, name_vars, train_vars>>

\* ----------------------------------------------------------- the scraper
Next ==
    \/ StartPlaywright
    \/ LaunchBrowser
    \/ NewContext
    \/ OpenArchive
    \/ ClickEnglishReleases
    \/ YearStart
    \/ CollectItem
    \/ DateDone
    \/ DateError
    \/ StartDownloads
    \/ \E i \in TaskIds : Acquire(i)
    \/ \E i \in TaskIds : NewPageOpens(i)
    \/ \E i \in TaskIds : NewPageFails(i)
    \/ \E i \in TaskIds : GotoReturns(i)
    \/ \E i \in TaskIds : GotoFails(i)
    \/ \E i \in TaskIds : LoadReturns(i)
    \/ \E i \in TaskIds : LoadFails(i)
    \/ \E i \in TaskIds : PdfReturns(i)
    \/ \E i \in TaskIds : PdfFails(i)
    \/ \E i \in TaskIds : ClosePage(i)
    \/ FinishDownloads
    \/ YearEnd
    \/ UnexpectedError
    \/ CloseContext
    \/ CloseBrowser
    \/ StopPlaywright

Spec == Init /\ [][Next]_vars

\* The steps of the download task at position i of the year's list.
TaskStep(i) ==
    /\ i \in TaskIds
    /\ \/ Acquire(i)
       \/ NewPageOpens(i)
       \/ NewPageFails(i)
       \/ GotoReturns(i)
       \/ GotoFails(i)
       \/ LoadReturns(i)
       \/ LoadFails(i)
       \/ PdfReturns(i)
       \/ PdfFails(i)
       \/ ClosePage(i)

\* The event loop runs every task that can go on: a task that waits for the
\* semaphore is woken when a permit is free, and an awaited browser call
\* returns or raises (every call has its timeout).
Fairness == \A i \in 1..MaxReleases : WF_vars(TaskStep(i))

SpecLive == Init /\ [][Next]_vars /\ Fairness

\* ------------------------------------------------- the file name alone
\* Arguments save_page_as_pdf can receive: release ids are digit strings of
\* any length, years have four digits, months and days one or two.
NameDigits == {"0", "2"}
NameRelids == UNION {[1..n -> NameDigits] : n \in 1..MaxRelidLen}
NameYears == {START_YEAR, 2020}
NameMonths == {1, 2, 12}
NameDays == {1, 2, 12, 31}
NameArgs == [relid : NameRelids, year : NameYears, month : NameMonths, day : NameDays]

InitName ==
    /\ InitScraper
    /\ name_in = NameIdle
    /\ name_out = NameIdle
    /\ InitTrainIdle

\* Two calls of save_page_as_pdf are about to be made.
NameArguments ==
    /\ name_in = NameIdle
    /\ \E a \in NameArgs, b \in NameArgs : name_in' = <<a, b>>
    /\ UNCHANGED <<pc, exit_path, handles, loop, tasks, semaphore, folders, counts,
                   faults, name_out, train_vars>>

\* Both calls build their file name (lines 43-47).
NameBuild ==
    /\ name_in # NameIdle
    /\ name_out = NameIdle
    /\ name_out' = <<pdf_filename(name_in[1].relid, name_in[1].year,
                                  name_in[1].month, name_in[1].day),
                     pdf_filename(name_in[2].relid, name_in[2].year,
                                  name_in[2].month, name_in[2].day)>>
    /\ UNCHANGED <<pc, exit_path, handles, loop, tasks, semaphore, folders, counts,
                   faults, name_in, train_vars>>

NextName == NameArguments \/ NameBuild

SpecName == InitName /\ [][NextName]_vars

\* ================================================================
\* Train-set-maker/Train_set.py: text functions of PDFProcessorApp.
\* A text is a sequence of one-character strings.

\* ------------------------------------------------------ character classes
UpperCase ==
    {"A", "B", "C", "D", "E", "F", "G", "H", "I", "J", "K", "L",
     "M", "N", "O", "P", "Q", "R", "S", "T", "U", "V", "W", "X", "Y", "Z"}
LowerCase ==
    {"a", "b", "c", "d", "e", "f", "g", "h", "i", "j", "k", "l",
     "m", "n", "o", "p", "q", "r", "s", "t", "u", "v", "w", "x", "y", "z"}
\* \s as far as the texts of the model go: space, tab and newline.
WhiteSpace == {" ", "\t", "\n"}

IsDigitChar(c) == \E d \in 1..Len(DigitChars) : c = DigitChars[d]
IsLetter(c) == c \in UpperCase \cup LowerCase
IsUpper(c) == c \in UpperCase
IsSpace(c) == c \in WhiteSpace
IsNonSpace(c) == c \notin WhiteSpace
IsBlank(c) == c = " "
IsNewline(c) == c = "\n"

Max(S) == CHOOSE m \in S : \A n \in S : n <= m
Min(S) == CHOOSE m \in S : \A n \in S : m <= n

\* ----------------------------------------------------------- str methods
\* s[i:] and s[i:j] with the 1-based positions of the model (j exclusive).
From(s, i) == SubSeq(s, i, Len(s))
Slice(s, i, j) == SubSeq(s, i, j - 1)

\* s.strip()
RECURSIVE lstrip(_)
lstrip(s) == IF s # <<>> /\ IsSpace(Head(s)) THEN lstrip(Tail(s)) ELSE s
RECURSIVE rstrip(_)
rstrip(s) == IF s # <<>> /\ IsSpace(s[Len(s)]) THEN rstrip(SubSeq(s, 1, Len(s) - 1)) ELSE s
strip(s) == rstrip(lstrip(s))

\* s.startswith(prefix, i - 1): prefix occurs in s at position i.
OccursAt(s, prefix, i) ==
    /\ i >= 1
    /\ i + Len(prefix) - 1 <= Len(s)
    /\ \A k \in 1..Len(prefix) : s[i + k - 1] = prefix[k]
startswith(s, prefix) == OccursAt(s, prefix, 1)

\* s.find(sub, start): the lowest position >= start at which sub occurs,
\* NotFound (-1 in the source, positions being 0-based there) when there is none.
NotFound == 0
find(s, sub, start) ==
    LET found == {i \in start..(Len(s) - Len(sub) + 1) : OccursAt(s, sub, i)}
    IN  IF found = {} THEN NotFound ELSE Min(found)

\* s.splitlines(): the lines of s without their line ends; a line end at the
\* very end of s opens no further line.
RECURSIVE splitlines(_)
splitlines(s) ==
    IF s = <<>> THEN <<>>
    ELSE LET nl == find(s, <<"\n">>, 1)
         IN  IF nl = NotFound THEN <<s>>
             ELSE <<Slice(s, 1, nl)>> \o splitlines(From(s, nl + 1))

\* sep.join(parts)
RECURSIVE join(_, _)
join(sep, parts) ==
    IF parts = <<>> THEN <<>>
    ELSE IF Len(parts) = 1 THEN parts[1]
    ELSE parts[1] \o sep \o join(sep, Tail(parts))

\* ------------------------------------------------------------ re patterns
\* A pattern is matched by following the sets of positions its parts can end
\* at. Ends: from a position of P, between lo and hi characters of a class;
\* LitEnds: from a position of P, the literal text lit.
InClass(class, c) ==
    CASE class = "\\d" -> IsDigitChar(c)
      [] class = "\\s" -> IsSpace(c)
      [] class = "\\S" -> IsNonSpace(c)
      [] class = "\\n" -> IsNewline(c)
      [] class = " " -> IsBlank(c)
      [] class = "[A-Za-z]" -> IsLetter(c)
      [] class = "[A-Z]" -> IsUpper(c)
Ends(s, P, class, lo, hi) ==
    {q \in 1..(Len(s) + 1) :
        \E p \in P : /\ q - p >= lo
                     /\ q - p <= hi
                     /\ \A k \in p..(q - 1) : InClass(class, s[k])}
LitEnds(s, P, lit) == {p + Len(lit) : p \in {x \in P : OccursAt(s, lit, x)}}

\* Where the match that starts at i ends (one past its last character), NoMatch
\* when the pattern does not match at i. Every repetition of these patterns
\* is greedy and is followed by nothing it could give characters back to, so
\* the match found is the longest one of the first alternative that matches.
NoMatch == 0
Longest(E) == IF E = {} THEN NoMatch ELSE Max(E)

\* url_pattern = re.compile(r'https?://\S+|www\.\S+')
url_pattern(s, i) ==
    LET http   == LitEnds(s, {i}, <<"h", "t", "t", "p">>)
        scheme == LitEnds(s, http \cup LitEnds(s, http, <<"s">>), <<":", "/", "/">>)
        first  == Ends(s, scheme, "\\S", 1, Len(s))
        www    == LitEnds(s, {i}, <<"w", "w", "w", ".">>)
        second == Ends(s, www, "\\S", 1, Len(s))
    IN  IF first # {} THEN Longest(first) ELSE Longest(second)

\* ref_pattern = re.compile(r'\[\d+\]')
ref_pattern(s, i) ==
    Longest(LitEnds(s, Ends(s, LitEnds(s, {i}, <<"[">>), "\\d", 1, Len(s)), <<"]">>))

\* multi_newline_pattern = re.compile(r'\n{3,}')
multi_newline_pattern(s, i) == Longest(Ends(s, {i}, "\\n", 3, Len(s)))

\* r' +'
spaces_pattern(s, i) == Longest(Ends(s, {i}, " ", 1, Len(s)))

\* datetime_pattern =
\*   re.compile(r'^\d{1,2}-[A-Za-z]+-\d{4}\s+\d{1,2}:\d{1,2}\s+[A-Z]+$')
datetime_pattern(s, i) ==
    LET day    == Ends(s, {i}, "\\d", 1, 2)
        month  == Ends(s, LitEnds(s, day, <<"-">>), "[A-Za-z]", 1, Len(s))
        yr     == Ends(s, LitEnds(s, month, <<"-">>), "\\d", 4, 4)
        hour   == Ends(s, Ends(s, yr, "\\s", 1, Len(s)), "\\d", 1, 2)
        minute == Ends(s, LitEnds(s, hour, <<":">>), "\\d", 1, 2)
        zone   == Ends(s, Ends(s, minute, "\\s", 1, Len(s)), "[A-Z]", 1, Len(s))
    IN  Longest(zone \cap {Len(s) + 1})

match_at(pattern, s, i) ==
    CASE pattern = "url_pattern" -> url_pattern(s, i)
      [] pattern = "ref_pattern" -> ref_pattern(s, i)
      [] pattern = "multi_newline_pattern" -> multi_newline_pattern(s, i)
      [] pattern = "spaces_pattern" -> spaces_pattern(s, i)
      [] pattern = "datetime_pattern" -> datetime_pattern(s, i)

\* pattern.fullmatch(s)
fullmatch(pattern, s) == match_at(pattern, s, 1) = Len(s) + 1

\* pattern.sub(repl, s): the matches are taken from left to right, each
\* starting where the one before ended.
RECURSIVE sub_from(_, _, _, _)
sub_from(pattern, repl, s, i) ==
    IF i > Len(s) THEN <<>>
    ELSE LET e == match_at(pattern, s, i)
         IN  IF e = NoMatch THEN <<s[i]>> \o sub_from(pattern, repl, s, i + 1)
             ELSE repl \o sub_from(pattern, repl, s, e)
sub(pattern, repl, s) == sub_from(pattern, repl, s, 1)

\* ------------------------------------------- extract_and_clean_text
HEADERS_FOOTERS_TO_REMOVE ==
    {
      <<"P", "r", "e", "s", "s", " ", "I", "n", "f", "o", "r", "m", "a", "t",
        "i", "o", "n", " ", "B", "u", "r", "e", "a", "u">>,
      <<"G", "o", "v", "e", "r", "n", "m", "e", "n", "t", " ", "o", "f", " ",
        "I", "n", "d", "i", "a">>,
      <<"*", "*", "*", "*">>
    }

\* The body of the loop over the lines (lines 262-269): the lines appended
\* to cleaned_lines for one line of the page text, none or one.
clean_line(line) ==
    LET cleaned_line == strip(line)
    IN  IF cleaned_line = <<>> THEN <<>>
        ELSE IF fullmatch("datetime_pattern", cleaned_line) THEN <<>>
        ELSE IF cleaned_line \in HEADERS_FOOTERS_TO_REMOVE THEN <<>>
        ELSE LET no_url == sub("url_pattern", <<>>, cleaned_line)
                 no_ref == strip(sub("ref_pattern", <<>>, no_url))
             IN  IF no_ref # <<>> THEN <<no_ref>> ELSE <<>>

RECURSIVE clean_lines(_)
clean_lines(lines) ==
    IF lines = <<>> THEN <<>> ELSE clean_line(Head(lines)) \o clean_lines(Tail(lines))

\* Lines 260-272: final_text for the page text full_text_unfiltered.
clean_text(full_text_unfiltered) ==
    LET cleaned_lines == clean_lines(splitlines(full_text_unfiltered))
        joined == join(<<"\n">>, cleaned_lines)
        final_text == strip(sub("multi_newline_pattern", <<"\n", "\n">>, joined))
    IN  sub("spaces_pattern", <<" ">>, final_text)

\* --------------------------------------- specification of the text clean-up
\* Pieces of page text: words, blanks, line ends, a header line, a date-time
\* line, a reference marker, a URL, and parts of a marker and of a URL.
CleanPieces ==
    {
      <<"H", "e", "l", "l", "o">>,
      <<" ">>,
      <<"[", "1", "]">>,
      <<"[">>,
      <<"2", "]">>,
      <<"h", "t">>,
      <<"t", "p", ":", "/", "/", "x">>,
      <<"\n">>,
      <<"*", "*", "*", "*">>,
      <<"w", "w", "w", ".", "a">>,
      <<"3", "-", "M", "a", "y", "-", "2", "0", "2", "4", " ", "9", ":", "0",
        "5", " ", "I", "S", "T">>
    }

\* The texts made of at most n pieces.
TextsOf(pieces, n) ==
    UNION {{join(<<>>, f) : f \in [1..k -> pieces]} : k \in 0..n}

\* The page text of the example of the specification: a header line, blank
\* lines, and a line with a run of blanks, a reference marker and a URL.
ExamplePageText ==
    <<"P", "r", "e", "s", "s", " ", "I", "n", "f", "o", "r", "m", "a", "t",
      "i", "o", "n", " ", "B", "u", "r", "e", "a", "u", "\n", "\n", "\n",
      "H", "e", "l", "l", "o", " ", " ", " ", "w", "o", "r", "l", "d", " ",
      "[", "1", "]", " ", "h", "t", "t", "p", ":", "/", "/", "x", ".", "c",
      "o", "m">>

CleanInputs == TextsOf(CleanPieces, MaxPieces) \cup {ExamplePageText}

InitClean ==
    /\ InitScraper
    /\ name_in = NameIdle
    /\ name_out = NameIdle
    /\ InitTrainIdle

call_unchanged ==
    UNCHANGED <<pc, exit_path, handles, loop, tasks, semaphore, folders, counts,
                faults, name_vars, gui_vars>>

\* A PDF is about to be cleaned: the text of its pages.
CleanArguments ==
    /\ call_in = CallIdle
    /\ \E text \in CleanInputs : call_in' = <<text>>
    /\ UNCHANGED call_out
    /\ call_unchanged

\* The clean-up of extract_and_clean_text runs on the page text.
CleanText ==
    /\ call_in # CallIdle
    /\ call_out = CallIdle
    /\ call_out' = <<clean_text(call_in[1])>>
    /\ UNCHANGED call_in
    /\ call_unchanged

\* The clean-up runs once more, on the text it returned.
CleanAgain ==
    /\ Len(call_out) = 1
    /\ call_out' = Append(call_out, clean_text(call_out[1]))
    /\ UNCHANGED call_in
    /\ call_unchanged

NextClean == CleanArguments \/ CleanText \/ CleanAgain

SpecClean == InitClean /\ [][NextClean]_vars

\* ------------------------------------------------ extract_between_markers
\* None of the source is the empty sequence and a value that is not None a
\* sequence of one element, so that an empty text differs from no text.
Some(x) == <<x>>

SUMMARY_START ==
    <<"-", "-", "-", " ", "S", "U", "M", "M", "A", "R", "Y", " ", "S", "T",
      "A", "R", "T", " ", "-", "-", "-">>
SUMMARY_END ==
    <<"-", "-", "-", " ", "S", "U", "M", "M", "A", "R", "Y", " ", "E", "N",
      "D", " ", "-", "-", "-">>
TOPICS_JSON_START ==
    <<"-", "-", "-", " ", "T", "O", "P", "I", "C", "S", " ", "J", "S", "O",
      "N", " ", "S", "T", "A", "R", "T", " ", "-", "-", "-">>
TOPICS_JSON_END ==
    <<"-", "-", "-", " ", "T", "O", "P", "I", "C", "S", " ", "J", "S", "O",
      "N", " ", "E", "N", "D", " ", "-", "-", "-">>

\* A plausible slip: the end marker is looked for from the start of the text.
extract_between_markers_anyend(text, start_marker, end_marker) ==
    LET start_idx == find(text, start_marker, 1)
    IN  IF start_idx = NotFound THEN None
        ELSE LET after == start_idx + Len(start_marker)
                 end_idx == find(text, end_marker, 1)
             IN  IF end_idx = NotFound THEN None
                 ELSE Some(strip(Slice(text, after, end_idx)))

extract_between_markers(text, start_marker, end_marker) ==
    LET start_idx == find(text, start_marker, 1)
    IN  IF start_idx = NotFound THEN None
        ELSE LET after == start_idx + Len(start_marker)
                 end_idx == find(text, end_marker, after)
             IN  IF end_idx = NotFound THEN None
                 ELSE Some(strip(Slice(text, after, end_idx)))

\* Pieces of a response: the four markers, a word, a blank, a line end, and a
\* word on a line of its own.
MarkerPieces ==
    {SUMMARY_START, SUMMARY_END, TOPICS_JSON_START, TOPICS_JSON_END,
     <<"a">>, <<" ">>, <<"\n">>, <<"\n", " ", "b", "\n">>}
MarkerPairs == {<<SUMMARY_START, SUMMARY_END>>, <<TOPICS_JSON_START, TOPICS_JSON_END>>}
MarkerInputs == TextsOf(MarkerPieces, MaxPieces)

\* A response is about to be searched for one of the two blocks.
MarkersArguments ==
    /\ call_in = CallIdle
    /\ \E text \in MarkerInputs, pair \in MarkerPairs :
           call_in' = <<text, pair[1], pair[2]>>
    /\ UNCHANGED call_out
    /\ call_unchanged

MarkersExtract ==
    /\ call_in # CallIdle
    /\ call_out = CallIdle
    /\ call_out' = <<extract_between_markers(call_in[1], call_in[2], call_in[3])>>
    /\ UNCHANGED call_in
    /\ call_unchanged

NextMarkers == MarkersArguments \/ MarkersExtract

SpecMarkers == InitClean /\ [][NextMarkers]_vars

\* ------------------------------------------------------------- json.loads
\* The texts of the model have no backslash, sign, fraction or exponent, so
\* string escapes and the other number forms of JSON are left out.
JsonWhiteSpace == {" ", "\t", "\n", "\r"}
EndOfText == ""
At(s, i) == IF i >= 1 /\ i <= Len(s) THEN s[i] ELSE EndOfText

RECURSIVE skip_ws(_, _)
skip_ws(s, i) == IF At(s, i) \in JsonWhiteSpace THEN skip_ws(s, i + 1) ELSE i

\* What the scanner returns for the value that starts at a position: the
\* value and the position after it, or a JSONDecodeError.
JSONDecodeError == [ok |-> FALSE, kind |-> "error", value |-> <<>>, next |-> 0]
Parsed(kind, value, next) == [ok |-> TRUE, kind |-> kind, value |-> value, next |-> next]

\* "..." : up to the next quote; a control character inside is an error.
parse_string(s, i) ==
    LET close == find(s, <<"\"">>, i + 1)
    IN  IF close = NotFound THEN JSONDecodeError
        ELSE IF \E k \in (i + 1)..(close - 1) : s[k] \in {"\n", "\t", "\r"}
             THEN JSONDecodeError
        ELSE Parsed("str", Slice(s, i + 1, close), close + 1)

\* 0 or a run of digits that does not start with 0.
parse_number(s, i) ==
    IF s[i] = "0" THEN Parsed("int", <<"0">>, i + 1)
    ELSE LET end == Longest(Ends(s, {i}, "\\d", 1, Len(s)))
         IN  Parsed("int", Slice(s, i, end), end)

RECURSIVE parse_value(_, _)
RECURSIVE parse_items(_, _, _)
RECURSIVE parse_pairs(_, _, _)

\* The items of an array from position i on, items being those read so far.
parse_items(s, i, items) ==
    LET item == parse_value(s, i)
        after == skip_ws(s, item.next)
    IN  IF ~item.ok THEN JSONDecodeError
        ELSE IF At(s, after) = "]"
             THEN Parsed("list", Append(items, [kind |-> item.kind, value |-> item.value]),
                         after + 1)
        ELSE IF At(s, after) = ","
             THEN parse_items(s, skip_ws(s, after + 1),
                              Append(items, [kind |-> item.kind, value |-> item.value]))
        ELSE JSONDecodeError

\* The pairs of an object from position i on, where a key has to start.
parse_pairs(s, i, pairs) ==
    IF At(s, i) # "\"" THEN JSONDecodeError
    ELSE LET key == parse_string(s, i)
             colon == skip_ws(s, key.next)
             item == parse_value(s, skip_ws(s, colon + 1))
             after == skip_ws(s, item.next)
             pair == [key |-> key.value, kind |-> item.kind, value |-> item.value]
         IN  IF ~key.ok THEN JSONDecodeError
             ELSE IF At(s, colon) # ":" THEN JSONDecodeError
             ELSE IF ~item.ok THEN JSONDecodeError
             ELSE IF At(s, after) = "}" THEN Parsed("dict", Append(pairs, pair), after + 1)
             ELSE IF At(s, after) = ","
                  THEN parse_pairs(s, skip_ws(s, after + 1), Append(pairs, pair))
             ELSE JSONDecodeError

parse_value(s, i) ==
    LET c == At(s, i)
    IN  IF c = "\"" THEN parse_string(s, i)
        ELSE IF c = "[" THEN
            (IF At(s, skip_ws(s, i + 1)) = "]"
             THEN Parsed("list", <<>>, skip_ws(s, i + 1) + 1)
             ELSE parse_items(s, skip_ws(s, i + 1), <<>>))
        ELSE IF c = "{" THEN
            (IF At(s, skip_ws(s, i + 1)) = "}"
             THEN Parsed("dict", <<>>, skip_ws(s, i + 1) + 1)
             ELSE parse_pairs(s, skip_ws(s, i + 1), <<>>))
        ELSE IF c # EndOfText /\ IsDigitChar(c) THEN parse_number(s, i)
        ELSE IF OccursAt(s, <<"n", "u", "l", "l">>, i) THEN Parsed("NoneType", <<>>, i + 4)
        ELSE IF OccursAt(s, <<"t", "r", "u", "e">>, i) THEN Parsed("bool", <<"1">>, i + 4)
        ELSE IF OccursAt(s, <<"f", "a", "l", "s", "e">>, i) THEN Parsed("bool", <<"0">>, i + 5)
        ELSE JSONDecodeError

\* json.loads(s): one value, white space around it, nothing else.
json_loads(s) ==
    LET obj == parse_value(s, skip_ws(s, 1))
    IN  IF ~obj.ok THEN JSONDecodeError
        ELSE IF skip_ws(s, obj.next) # Len(s) + 1 THEN JSONDecodeError
        ELSE obj

\* --------------------------- generate_summary_and_topics: the topics block
IsCommentLine(line) == startswith(strip(line), <<"/", "/">>)
IsNoCommentLine(line) == ~IsCommentLine(line)

\* Line 316
json_string_cleaned(topics_json_str) ==
    join(<<"\n">>, SelectSeq(splitlines(topics_json_str), IsNoCommentLine))

\* A plausible slip: whatever parses is taken as the topics.
parse_topics_anyjson(topics_json_str) ==
    LET topics == json_loads(json_string_cleaned(topics_json_str))
    IN  IF ~topics.ok THEN None
        ELSE Some([kind |-> topics.kind, value |-> topics.value])

\* Lines 314-324: the topics returned for the text of the topics block, None
\* after a JSONDecodeError or the TypeError of line 318.
parse_topics(topics_json_str) ==
    LET topics == json_loads(json_string_cleaned(topics_json_str))
    IN  IF ~topics.ok THEN None
        ELSE IF topics.kind # "list" THEN None
        ELSE Some([kind |-> topics.kind, value |-> topics.value])

\* Pieces of a topics block: brackets, a topic object, a comma, a number, a
\* string, a line end, a blank, and a comment line with and without indent.
TopicPieces ==
    {<<"[">>, <<"]">>,
     <<"{", "\"", "t", "\"", ":", " ", "\"", "A", "\"", "}">>,
     <<",">>, <<"7">>, <<"\"", "s", "\"">>, <<"\n">>, <<" ">>,
     <<"/", "/", " ", "c", "\n">>,
     <<" ", " ", "/", "/", "c", "\n">>}
TopicInputs == TextsOf(TopicPieces, MaxPieces)

\* The text between the topics markers is about to be parsed.
TopicsArguments ==
    /\ call_in = CallIdle
    /\ \E text \in TopicInputs : call_in' = <<text>>
    /\ UNCHANGED call_out
    /\ call_unchanged

\* The comment lines are dropped and the rest is parsed.
TopicsParse ==
    /\ call_in # CallIdle
    /\ call_out = CallIdle
    /\ call_out' = <<json_string_cleaned(call_in[1]), parse_topics(call_in[1])>>
    /\ UNCHANGED call_in
    /\ call_unchanged

NextTopics == TopicsArguments \/ TopicsParse

SpecTopics == InitClean /\ [][NextTopics]_vars

\* ================================================================
\* Train-set-maker/Train_set.py: the application. Its handlers run on the
\* interface thread, one at a time; process_files is followed statement group
\* by statement group, and the only place where another handler can run
\* inside it is root.update() (line 391), which dispatches pending events.
\* The model covers one processing session of the application.

\* A path is the sequence of its components; os.path.normpath drops the "."
\* components (the paths of the model have no ".." and no repeated separator).
IsNoDot(component) == component # "."
normpath(f) == SelectSeq(f, IsNoDot)
basename(path) == path[Len(path)]

\* Paths the file dialog or a drop can deliver: two spellings of one file,
\* a file with the same name in another folder, and one more file.
DialogPaths ==
    {<<"d", "a.pdf">>, <<"d", ".", "a.pdf">>, <<"e", "a.pdf">>, <<"d", "b.pdf">>}
FilesToAdd == UNION {[1..n -> DialogPaths] : n \in 1..2}

\* A text is stood for by its number of characters here; len(text[:k]):
Prefix(chars, k) == IF chars < k THEN chars ELSE k

\* Numbers of characters of the cleaned text of a PDF: too short for language
\* detection and for the API, too short for the API only, ordinary, and more
\* than the prompt takes.
TextChars == {10, 30, 60, PROMPT_TEXT_CHARS + 1}

\* What detect() returns or raises.
Detections == {"en", "hi", "LangDetectException"}

\* What model.generate_content does: it raises, it returns a response
\* without parts, or it returns a response with a text.
Block(start_marker, body, end_marker) == start_marker \o <<"\n">> \o body \o <<"\n">> \o end_marker
SummaryBlock == Block(SUMMARY_START, <<"S", "u", "m">>, SUMMARY_END)
ResponseTexts ==
    {SummaryBlock \o <<"\n">> \o Block(TOPICS_JSON_START, <<"[", "]">>, TOPICS_JSON_END),
     SummaryBlock \o <<"\n">> \o Block(TOPICS_JSON_START, <<"{", "}">>, TOPICS_JSON_END),
     SummaryBlock \o <<"\n">> \o Block(TOPICS_JSON_START, <<"[">>, TOPICS_JSON_END),
     SummaryBlock,
     Block(TOPICS_JSON_START, <<"[", "]">>, TOPICS_JSON_END)}
ApiOutcomes ==
    {[kind |-> "raises", text |-> <<>>], [kind |-> "no_parts", text |-> <<>>]}
        \cup {[kind |-> "response", text |-> t] : t \in ResponseTexts}

\* What json.dump / write / flush of line 435 do: they succeed, or one of
\* them raises before anything reached the file or after a part of the
\* record did.
WriteOutcomes == {"written", "nothing", "partial"}


gui_unchanged ==
    UNCHANGED <<pc, exit_path, handles, loop, tasks, semaphore, folders, counts,
                faults, name_vars, call_vars>>

\* Handlers are dispatched from the main loop and from root.update(). The
\* application is followed until process_files has ended once after it set
\* processing_active.
Dispatching == gui_pc \in {"idle", "update"} /\ exit_how = "none"

\* ------------------------------------------------------- the file list
\* A plausible slip: the paths are appended without looking at the list.
extended_all(files, files_to_add) ==
    files \o [k \in 1..Len(files_to_add) |-> normpath(files_to_add[k])]

\* The loop of add_pdf_files over files_to_add (lines 214-218).
RECURSIVE extended(_, _)
extended(files, files_to_add) ==
    IF files_to_add = <<>> THEN files
    ELSE LET norm_f == normpath(Head(files_to_add))
         IN  IF \E k \in 1..Len(files) : files[k] = norm_f
             THEN extended(files, Tail(files_to_add))
             ELSE extended(Append(files, norm_f), Tail(files_to_add))

\* on_drop / add_files -> add_pdf_files
AddFiles ==
    /\ Dispatching
    /\ \E files_to_add \in FilesToAdd :
        /\ Len(extended(pdf_files, files_to_add)) <= MaxFiles
        /\ pdf_files' = extended(pdf_files, files_to_add)
        /\ notice' = IF pdf_files' = pdf_files THEN "Info: already in the list" ELSE "added"
    /\ UNCHANGED <<gui_pc, processing_active, processing_stats, log_file_handle,
                   log_file_path, jsonl_outfile, dataset, requests, file_index,
                   extracted_text, answer,
                   exit_how, final_status_msg>>
    /\ UNCHANGED detection
    /\ gui_unchanged

\* clear_files
ClearFiles ==
    /\ Dispatching
    /\ IF processing_active
       THEN /\ notice' = "Busy: cannot clear"
            /\ UNCHANGED pdf_files
       ELSE /\ pdf_files' = <<>>
            /\ notice' = "cleared"
    /\ UNCHANGED <<gui_pc, processing_active, processing_stats, log_file_handle,
                   log_file_path, jsonl_outfile, dataset, requests, file_index,
                   extracted_text, answer,
                   exit_how, final_status_msg>>
    /\ UNCHANGED detection
    /\ gui_unchanged

\* ---------------------------------------- generate_summary_and_topics
\* A plausible slip: the whole text goes into the prompt.
embedded_text_whole(pdf_text) == pdf_text

\* {pdf_text[:40000]} of line 300
embedded_text(pdf_text) == Prefix(pdf_text, PROMPT_TEXT_CHARS)

\* A plausible slip: a summary is kept when the topics block is missing.
parse_response_keeps(api) ==
    LET summary == extract_between_markers(api.text, SUMMARY_START, SUMMARY_END)
        topics_json_str ==
            extract_between_markers(api.text, TOPICS_JSON_START, TOPICS_JSON_END)
    IN  IF api.kind # "response" THEN [summary |-> None, topics |-> None]
        ELSE IF summary = None
             THEN [summary |-> None, topics |-> None]
        ELSE IF topics_json_str = None
             THEN [summary |-> summary, topics |-> None]
        ELSE [summary |-> summary, topics |-> parse_topics(topics_json_str[1])]

\* Lines 304-328: what is made of the outcome of generate_content.
parse_response(api) ==
    LET summary == extract_between_markers(api.text, SUMMARY_START, SUMMARY_END)
        topics_json_str ==
            extract_between_markers(api.text, TOPICS_JSON_START, TOPICS_JSON_END)
    IN  IF api.kind # "response" THEN [summary |-> None, topics |-> None]
        ELSE IF summary = None \/ topics_json_str = None
             THEN [summary |-> None, topics |-> None]
        ELSE [summary |-> summary, topics |-> parse_topics(topics_json_str[1])]

\* parse_response for every outcome of the model.
parsed_responses == [api \in ApiOutcomes |-> parse_response(api)]

\* Pieces of a response text: whole blocks (a summary; topics that are a
\* list, an object, not JSON), a summary without its end, and single markers
\* that pair with a marker of a block before or after them.
ResponsePieces ==
    {SummaryBlock,
     SUMMARY_START \o <<"S", "u", "m">>,
     SUMMARY_END,
     Block(TOPICS_JSON_START, <<"[", "]">>, TOPICS_JSON_END),
     Block(TOPICS_JSON_START, <<"{", "}">>, TOPICS_JSON_END),
     Block(TOPICS_JSON_START, <<"[">>, TOPICS_JSON_END),
     TOPICS_JSON_START}
ResponseInputs == TextsOf(ResponsePieces, MaxPieces)

\* generate_content has returned a response with a text.
ResponseArguments ==
    /\ call_in = CallIdle
    /\ \E text \in ResponseInputs : call_in' = <<[kind |-> "response", text |-> text]>>
    /\ UNCHANGED call_out
    /\ call_unchanged

\* Lines 310-324 run on the response.
ResponseParse ==
    /\ call_in # CallIdle
    /\ call_out = CallIdle
    /\ LET returned == parse_response(call_in[1])
       IN  call_out' = <<returned.summary, returned.topics>>
    /\ UNCHANGED call_in
    /\ call_unchanged

NextResponse == ResponseArguments \/ ResponseParse

SpecResponse == InitClean /\ [][NextResponse]_vars

\* Lines 286-328: the summary and the topics returned for a text of pdf_text
\* characters, and the texts embedded in the prompts sent (their numbers of
\* characters). self.model is set: __init__ gives up when it is not.
generate_summary_and_topics(pdf_text, api) ==
    IF pdf_text < MIN_TEXT_CHARS
    THEN [summary |-> None, topics |-> None, prompts |-> <<>>]
    ELSE parsed_responses[api] @@ [prompts |-> <<embedded_text(pdf_text)>>]

\* ------------------------------------------------------- process_files
\* An entry of per_file_details and a line of the dataset file; index is the
\* position of the file in pdf_files.
Details(filename, index, status, reason) ==
    [filename |-> filename, index |-> index, status |-> status, reason |-> reason]
Record(filename, index, summary, topics, complete) ==
    [pdf_filename |-> filename, index |-> index, gemini_summary |-> summary,
     gemini_topics |-> topics, complete |-> complete]

\* A plausible slip: a failed extraction is taken for a skipped file.
extraction_failed_skip(filename, index) ==
    Details(filename, index, "SKIP", "Text extraction/cleaning failed")

\* Line 410
extraction_failed(filename, index) ==
    Details(filename, index, "FAIL", "Text extraction/cleaning failed")

\* Line 421
skipped(filename, index) == Details(filename, index, "SKIP", "Detected language")

\* A plausible slip: a detection that raised counts as another language.
detected_language_strict(extracted, detected) ==
    IF Prefix(extracted, LANG_SAMPLE_CHARS) < MIN_SAMPLE_CHARS THEN "unknown"
    ELSE detected

\* Lines 415-426: lang after the try block.
detected_language(extracted, detected) ==
    IF Prefix(extracted, LANG_SAMPLE_CHARS) < MIN_SAMPLE_CHARS THEN "unknown"
    ELSE IF detected = "LangDetectException" THEN "en"
    ELSE detected

\* A plausible slip: the status is not set when no summary came back.
file_details_unknown(filename, index, summary, topics, write) ==
    IF write # "written" THEN Details(filename, index, "FAIL", "JSON writing error")
    ELSE IF summary # None
    THEN Details(filename, index, "SUCCESS",
                 IF topics = None THEN "Summary generated (Topics parsing failed)"
                 ELSE "Summary generated")
    ELSE Details(filename, index, "UNKNOWN", "")

\* Lines 436-442: the detail entry after the record was or was not written.
file_details(filename, index, summary, topics, write) ==
    IF write # "written" THEN Details(filename, index, "FAIL", "JSON writing error")
    ELSE IF summary # None
    THEN Details(filename, index, "SUCCESS",
                 IF topics = None THEN "Summary generated (Topics parsing failed)"
                 ELSE "Summary generated")
    ELSE Details(filename, index, "FAIL", "Gemini generation failed")

\* A plausible slip: the record is written a second time.
written_lines_twice(data_record, write) ==
    IF write = "written" THEN <<data_record, data_record>>
    ELSE IF write = "partial" THEN <<[data_record EXCEPT !.complete = FALSE]>>
    ELSE <<>>

\* Line 435: what reaches the dataset file.
written_lines(data_record, write) ==
    IF write = "written" THEN <<data_record>>
    ELSE IF write = "partial" THEN <<[data_record EXCEPT !.complete = FALSE]>>
    ELSE <<>>

\* Lines 342-343: process_files refuses.
ProcessFilesRefused ==
    /\ Dispatching
    /\ processing_active \/ pdf_files = <<>>
    /\ notice' = IF processing_active THEN "Busy: already processing" ELSE "No Files"
    /\ UNCHANGED <<gui_pc, pdf_files, processing_active, processing_stats,
                   log_file_handle, log_file_path, jsonl_outfile, dataset, requests,
                   file_index, extracted_text, answer, exit_how, final_status_msg>>
    /\ UNCHANGED detection
    /\ gui_unchanged

\* Lines 345-351: the save dialog is cancelled.
ProcessFilesCancelled ==
    /\ Dispatching
    /\ ~processing_active
    /\ pdf_files # <<>>
    /\ notice' = "cancelled"
    /\ UNCHANGED <<gui_pc, pdf_files, processing_active, processing_stats,
                   log_file_handle, log_file_path, jsonl_outfile, dataset, requests,
                   file_index, extracted_text, answer, exit_how, final_status_msg>>
    /\ UNCHANGED detection
    /\ gui_unchanged

\* Lines 354-391, up to root.update(): the flag is set, the statistics are
\* reset, the log path is derived and the log file opened. Either of the
\* last two may raise, and process_files returns.
StartSession ==
    /\ Dispatching
    /\ ~processing_active
    /\ pdf_files # <<>>
    /\ processing_stats' = [FreshStats EXCEPT !.total_files_in_list = Len(pdf_files)]
    /\ requests' = <<>>
    /\ final_status_msg' = None
    /\ jsonl_outfile' = "None"
    /\ file_index' = 1
    /\ extracted_text' = None
    /\ answer' = None
    /\ \/ /\ processing_active' = TRUE
          /\ log_file_handle' = "open"
          /\ log_file_path' = "set"
          /\ gui_pc' = "update"
          /\ exit_how' = "none"
          /\ notice' = "started"
       \/ /\ processing_active' = FALSE
          /\ log_file_handle' = "None"
          /\ log_file_path' = "None"
          /\ gui_pc' = "idle"
          /\ exit_how' = "returned"
          /\ \E box \in {"Path Error", "Log File Error"} : notice' = box
    /\ UNCHANGED <<pdf_files, dataset>>
    /\ detection' = NoText
    /\ gui_unchanged

\* root.update() of line 391 returns.
UpdateReturns ==
    /\ gui_pc = "update"
    /\ gui_pc' = "open"
    /\ UNCHANGED <<pdf_files, processing_active, processing_stats, log_file_handle,
                   log_file_path, jsonl_outfile, dataset, requests, file_index,
                   extracted_text, answer,
                   exit_how, notice, final_status_msg>>
    /\ UNCHANGED detection
    /\ gui_unchanged

\* A statement of lines 389-391 raises (they are calls of the interface
\* outside every try block): process_files ends with the exception, the
\* flag stays set and the log file open.
UpdateRaises ==
    /\ gui_pc = "update"
    /\ gui_pc' = "idle"
    /\ exit_how' = "raised"
    /\ notice' = "exception"
    /\ UNCHANGED <<pdf_files, processing_active, processing_stats, log_file_handle,
                   log_file_path, jsonl_outfile, dataset, requests, file_index,
                   extracted_text, answer, final_status_msg>>
    /\ UNCHANGED detection
    /\ gui_unchanged

\* Lines 454-459: the handler of an exception of the try block.
critical(stats) ==
    [stats EXCEPT !.per_file_details =
        Append(@, Details("Processing Loop", 0, "FAIL", "Critical Error"))]

\* Line 395: the dataset file is opened for writing, or open raises.
OpenDataset ==
    /\ gui_pc = "open"
    /\ \/ /\ jsonl_outfile' = "open"
          /\ dataset' = <<>>
          /\ gui_pc' = "loop"
          /\ UNCHANGED <<processing_stats, notice>>
       \/ /\ processing_stats' = critical(processing_stats)
          /\ gui_pc' = "finally"
          /\ notice' = "Processing Error"
          /\ UNCHANGED <<jsonl_outfile, dataset>>
    /\ UNCHANGED <<pdf_files, processing_active, log_file_handle, log_file_path,
                   requests, file_index, extracted_text, answer, exit_how, final_status_msg>>
    /\ UNCHANGED detection
    /\ gui_unchanged

\* Lines 398-400: the file is counted as attempted.
attempted(stats, filename) ==
    [stats EXCEPT !.processed_count = @ + 1,
                  !.files_attempted = Append(@, filename)]

\* The pass for a file is over: the loop goes on to the next file, or ends.
NextFile ==
    /\ file_index' = file_index + 1
    /\ gui_pc' = IF file_index' > Len(pdf_files) THEN "finally" ELSE "loop"
    /\ extracted_text' = None
    /\ answer' = None

\* detect() is called on a sample of at least MIN_SAMPLE_CHARS characters.
DetectOutcomes(extracted) ==
    IF extracted # None /\ Prefix(extracted[1], LANG_SAMPLE_CHARS) >= MIN_SAMPLE_CHARS
    THEN Detections ELSE {NotCalled}

\* Lines 398-426: the file is counted, its text extracted and its language
\* detected. extracted is None when extract_and_clean_text failed and the
\* number of characters of the cleaned text otherwise.
ExtractText ==
    /\ gui_pc = "loop"
    /\ file_index <= Len(pdf_files)
    /\ \E extracted \in {None} \cup {Some(chars) : chars \in TextChars} :
       \E detected \in DetectOutcomes(extracted) :
        LET filename == basename(pdf_files[file_index])
            stats == attempted(processing_stats, filename)
        IN  /\ detection' = IF extracted = None THEN NoText ELSE detected
            /\ IF extracted = None
               THEN /\ processing_stats' =
                           [stats EXCEPT !.per_file_details =
                               Append(@, extraction_failed(filename, file_index))]
                    /\ NextFile
               ELSE IF detected_language(extracted[1], detected) \notin {"en", "unknown"}
               THEN /\ processing_stats' =
                           [stats EXCEPT !.per_file_details =
                               Append(@, skipped(filename, file_index))]
                    /\ NextFile
               ELSE /\ processing_stats' = stats
                    /\ extracted_text' = extracted
                    /\ gui_pc' = "api"
                    /\ UNCHANGED <<file_index, answer>>
    /\ UNCHANGED <<pdf_files, processing_active, log_file_handle, log_file_path,
                   jsonl_outfile, dataset, requests, exit_how, notice,
                   final_status_msg>>
    /\ gui_unchanged

\* generate_content is called for a text of at least MIN_TEXT_CHARS characters.
ApiNotCalled == [kind |-> NotCalled, text |-> <<>>]
ApiOutcomesFor(pdf_text) ==
    IF pdf_text >= MIN_TEXT_CHARS THEN ApiOutcomes ELSE {ApiNotCalled}

\* Lines 428-430: generate_summary_and_topics is called.
CallGemini ==
    /\ gui_pc = "api"
    /\ \E api \in ApiOutcomesFor(extracted_text[1]) :
        LET returned == generate_summary_and_topics(extracted_text[1], api)
        IN  /\ answer' = Some([summary |-> returned.summary, topics |-> returned.topics])
            /\ requests' = requests \o
                   [k \in 1..Len(returned.prompts) |->
                       [index |-> file_index, chars |-> returned.prompts[k]]]
    /\ gui_pc' = "write"
    /\ UNCHANGED <<pdf_files, processing_active, processing_stats, log_file_handle,
                   log_file_path, jsonl_outfile, dataset, file_index, extracted_text,
                   exit_how, notice, final_status_msg>>
    /\ UNCHANGED detection
    /\ gui_unchanged

\* Lines 432-451: the record is written and the detail entry appended.
WriteRecord ==
    /\ gui_pc = "write"
    /\ \E write \in WriteOutcomes :
        LET filename == basename(pdf_files[file_index])
            summary == answer[1].summary
            topics == answer[1].topics
            data_record == Record(filename, file_index, summary, topics, TRUE)
        IN  /\ dataset' = dataset \o written_lines(data_record, write)
            /\ processing_stats' =
                   [processing_stats EXCEPT !.per_file_details =
                       Append(@, file_details(filename, file_index, summary, topics, write))]
    /\ NextFile
    /\ UNCHANGED <<pdf_files, processing_active, log_file_handle, log_file_path,
                   jsonl_outfile, requests, exit_how, notice, final_status_msg>>
    /\ detection' = NoText
    /\ gui_unchanged

\* A statement of the loop outside the inner try blocks raises (a call of
\* the interface at lines 401-402): the exception ends the loop.
CriticalError ==
    /\ gui_pc = "loop"
    /\ file_index <= Len(pdf_files)
    /\ processing_stats' =
           critical(attempted(processing_stats, basename(pdf_files[file_index])))
    /\ gui_pc' = "finally"
    /\ notice' = "Processing Error"
    /\ UNCHANGED <<pdf_files, processing_active, log_file_handle, log_file_path,
                   jsonl_outfile, dataset, requests, file_index, extracted_text, answer, exit_how,
                   final_status_msg>>
    /\ detection' = NoText
    /\ gui_unchanged

CountStatus(status) ==
    Cardinality({k \in 1..Len(processing_stats.per_file_details) :
                    processing_stats.per_file_details[k].status = status})

\* A plausible slip: the log file is closed and the attribute keeps the
\* closed file.
FinishSession_handlekept ==
    /\ gui_pc = "finally"
    /\ jsonl_outfile' = IF jsonl_outfile = "open" THEN "closed" ELSE jsonl_outfile
    /\ processing_active' = FALSE
    /\ \/ /\ log_file_handle' = IF log_file_handle = "open" THEN "closed" ELSE log_file_handle
          /\ log_file_path' = "None"
          /\ final_status_msg' =
                 Some([success |-> CountStatus("SUCCESS"), skipped |-> CountStatus("SKIP"),
                       failed |-> CountStatus("FAIL"),
                       processed |-> processing_stats.processed_count,
                       total |-> processing_stats.total_files_in_list])
          /\ exit_how' = "returned"
          /\ notice' = "Complete"
       \/ /\ log_file_handle' = "closed"
          /\ exit_how' = "raised"
          /\ UNCHANGED <<log_file_path, final_status_msg, notice>>
    /\ gui_pc' = "idle"
    /\ UNCHANGED <<pdf_files, processing_stats, dataset, requests, file_index,
                   extracted_text, answer>>
    /\ UNCHANGED detection
    /\ gui_unchanged

\* The finally block (lines 460-501): the dataset file is closed, the flag
\* reset, the summary written and the log file closed. close() of line 471
\* may raise; the statements after it are not run then.
FinishSession ==
    /\ gui_pc = "finally"
    /\ jsonl_outfile' = IF jsonl_outfile = "open" THEN "closed" ELSE jsonl_outfile
    /\ processing_active' = FALSE
    /\ \/ /\ log_file_handle' = "None"
          /\ log_file_path' = "None"
          /\ final_status_msg' =
                 Some([success |-> CountStatus("SUCCESS"), skipped |-> CountStatus("SKIP"),
                       failed |-> CountStatus("FAIL"),
                       processed |-> processing_stats.processed_count,
                       total |-> processing_stats.total_files_in_list])
          /\ exit_how' = "returned"
          /\ notice' = "Complete"
       \/ /\ log_file_handle' = "closed"
          /\ exit_how' = "raised"
          /\ UNCHANGED <<log_file_path, final_status_msg, notice>>
    /\ gui_pc' = "idle"
    /\ UNCHANGED <<pdf_files, processing_stats, dataset, requests, file_index,
                   extracted_text, answer>>
    /\ UNCHANGED detection
    /\ gui_unchanged

NextGui ==
    \/ AddFiles
    \/ ClearFiles
    \/ ProcessFilesRefused
    \/ ProcessFilesCancelled
    \/ StartSession
    \/ UpdateReturns
    \/ UpdateRaises
    \/ OpenDataset
    \/ ExtractText
    \/ CallGemini
    \/ WriteRecord
    \/ CriticalError
    \/ FinishSession

InitGui ==
    /\ InitScraper
    /\ name_in = NameIdle
    /\ name_out = NameIdle
    /\ InitTrainIdle

SpecGui == InitGui /\ [][NextGui]_vars

\* ================================================================ claims
Holding == {i \in TaskIds : tasks[i].pc \in {"new_page", "goto", "load", "pdf", "closing"}}
OpenTabs == {i \in TaskIds : tasks[i].page = "open"}
Done(i) == tasks[i].pc = "done"

\* C1: during a year's download phase the number of tasks inside the
\* semaphore, and with it the number of print-view tabs open at once, never
\* exceeds CONCURRENCY_LIMIT, also when more releases were collected than
\* there are permits.
C1_SemaphoreBound ==
    /\ Cardinality(Holding) <= CONCURRENCY_LIMIT
    /\ Cardinality(OpenTabs) <= CONCURRENCY_LIMIT
    /\ semaphore = CONCURRENCY_LIMIT - Cardinality(Holding)

\* C1 happens: more tasks than permits, all permits taken, every holder has
\* its tab open and a task is waiting.
C1_Witness ==
    /\ Len(tasks) > CONCURRENCY_LIMIT
    /\ Cardinality(Holding) = CONCURRENCY_LIMIT
    /\ Cardinality(OpenTabs) = CONCURRENCY_LIMIT
    /\ \E i \in TaskIds : tasks[i].pc = "wait"

\* C2: when save_page_as_pdf is called and the PDF is already in the
\* collective folder or, failing that, in the date-wise folder, it returns
\* False and downloads nothing: page.pdf is not invoked by that call, so the
\* existing PDF is not overwritten.
C2_ExistingNotDownloaded ==
    \A i \in TaskIds :
        tasks[i].found \in {"collective", "date"} =>
            /\ tasks[i].pdf_calls = 0
            /\ tasks[i].saved = FALSE
            /\ tasks[i].pc \in {"closing", "done"}
            /\ tasks[i].result # "True"

\* C2 happens: one call met the PDF in the collective folder, another met it
\* in the date-wise folder only, and both tasks returned False.
C2_Witness ==
    \E i \in TaskIds, j \in TaskIds :
        /\ tasks[i].found = "collective" /\ tasks[i].result = "False"
        /\ tasks[j].found = "date" /\ tasks[j].result = "False"

\* C3 as stated: whenever save_page_as_pdf has returned True the PDF exists
\* at the date-partitioned path and under the same name in the collective
\* folder.
C3_SavedInBothFolders ==
    \A i \in TaskIds :
        tasks[i].saved =>
            /\ tasks[i].pdf_path \in date_files
            /\ tasks[i].pdf_filename \in collective_files

\* C3 amended: whenever save_page_as_pdf has returned True the PDF exists at
\* the date-partitioned path, and it exists under the same name in the
\* collective folder unless the copy to the collective folder raised.
C3_SavedInDateFolder ==
    \A i \in TaskIds :
        tasks[i].saved =>
            /\ tasks[i].pdf_path \in date_files
            /\ (tasks[i].copy_failed \/ tasks[i].pdf_filename \in collective_files)

\* C3 happens: a call returned True after render and copy both worked.
C3_Witness ==
    \E i \in TaskIds :
        /\ tasks[i].saved /\ ~tasks[i].copy_failed /\ tasks[i].result = "True"
        /\ tasks[i].pdf_path \in date_files
        /\ tasks[i].pdf_filename \in collective_files

\* C4: no two download tasks of a year write the same PDF path; also when
\* the same (relid, year, month, day) was collected twice, at most one task
\* calls page.pdf for a given file name.
C4_SingleWriter ==
    \A i \in TaskIds, j \in TaskIds :
        (i # j /\ tasks[i].pdf_calls >= 1 /\ tasks[j].pdf_calls >= 1) =>
            tasks[i].pdf_path # tasks[j].pdf_path

\* C5 as stated: a timeout or other exception while processing a release is
\* caught inside its task, and the task yields False.
C5_FaultYieldsFalse ==
    \A i \in TaskIds :
        (Done(i) /\ tasks[i].fault # "none") => tasks[i].result = "False"

\* C5 amended: a timeout or other exception while processing a release is
\* caught inside its task and the task yields False, unless closing the tab
\* in the finally block raises as well, in which case gather receives that
\* exception as the task's result; either way main() gets past gather only
\* when every collected release of the year has been attempted and is done.
C5_FaultStaysLocal ==
    /\ \A i \in TaskIds :
          (Done(i) /\ tasks[i].fault # "none") =>
              tasks[i].result = IF tasks[i].page = "close_failed"
                                THEN "Exception" ELSE "False"
    /\ pc # "gather" =>
          \A i \in TaskIds : Done(i) /\ tasks[i].new_page_calls = 1

\* C5 happens: the year's summary is reached after one release timed out in
\* navigation and yielded False while another release of the year was saved.
C5_Witness ==
    /\ pc = "year_end"
    /\ \E i \in TaskIds, j \in TaskIds :
          /\ tasks[i].fault = "goto" /\ tasks[i].result = "False"
          /\ tasks[j].result = "True"

\* C6: there is no retry; every collected release entry gets one task, which
\* opens a tab once and navigates and renders at most once, whether it
\* succeeds, times out or raises.
C6_NoRetry ==
    /\ Len(tasks) \in {0, Len(releases_for_year)}
    /\ \A i \in TaskIds :
          /\ tasks[i].new_page_calls <= 1
          /\ tasks[i].goto_calls <= 1
          /\ tasks[i].pdf_calls <= 1
          /\ tasks[i].pc \notin {"wait", "new_page"} => tasks[i].new_page_calls = 1

\* C6 happens: a task is done after its single navigation failed, and a
\* task is done after its single render failed.
C6_Witness ==
    \E i \in TaskIds, j \in TaskIds :
        /\ Done(i) /\ tasks[i].fault = "goto" /\ tasks[i].goto_calls = 1
        /\ Done(j) /\ tasks[j].fault = "pdf" /\ tasks[j].pdf_calls = 1

\* C7: per year, no download task exists before the collection over all
\* dates of the year has finished, and the next year (its collection) starts
\* only when every download task of the current year is done.
C7_TwoPhases ==
    /\ tasks # <<>> => (date_idx > NumDates /\ pc \in {"gather", "year_end"})
    /\ pc # "gather" => \A i \in TaskIds : Done(i)

\* C7 happens: the download phase of the second year is running after the
\* first year had downloads of its own.
C7_Witness ==
    /\ year = END_YEAR
    /\ pc = "gather"
    /\ collected > Len(tasks)
    /\ \E i \in TaskIds : ~Done(i)

\* C8: on every exit path of main() each handle that was created (driver,
\* browser, context) has had its close or stop attempted when main() ends,
\* and a close that raised did not keep the others from being closed.
C8_CleanupComplete ==
    pc = "done" => /\ playwright # "open"
                   /\ browser # "open"
                   /\ context # "open"

\* C8 happens: main() returned early at 'English Releases', closing the
\* context raised, and browser and driver were closed all the same.
C8_Witness ==
    /\ pc = "done"
    /\ exit_path = "early_return"
    /\ context = "close_failed"
    /\ browser = "closed"
    /\ playwright = "closed"

NewlySaved == {i \in TaskIds : tasks[i].saved}
AlreadyThere == {i \in TaskIds : tasks[i].found \in {"collective", "date"}}
DownloadFailed == {i \in TaskIds : tasks[i].fault # "none"}

\* C9: in the year's summary every collected release is counted once and in
\* the right place: a success iff its PDF was newly saved, skipped iff its
\* PDF already existed, a failure iff its download failed.
C9_SummaryCounts ==
    (pc = "year_end" /\ tasks # <<>>) =>
        /\ success_count = Cardinality(NewlySaved)
        /\ skipped_count = Cardinality(AlreadyThere)
        /\ fail_count = Cardinality(DownloadFailed)

\* C10: the file name is a function of (relid, year, month, day) and two
\* distinct argument tuples never get the same file name.
C10_NamesDistinct ==
    name_out # NameIdle => ((name_in[1] = name_in[2]) <=> (name_out[1] = name_out[2]))

\* C10 happens: two calls whose arguments differ only in the day have built
\* different names.
C10_Witness ==
    /\ name_out # NameIdle
    /\ name_in[1].day # name_in[2].day
    /\ name_in[1].relid = name_in[2].relid
    /\ name_in[1].year = name_in[2].year
    /\ name_in[1].month = name_in[2].month
    /\ name_out[1] # name_out[2]

\* ------------------------------------------------- claims on Train_set.py
Cleaned == Len(call_out) >= 1
Matches(pattern, s) == \E i \in 1..Len(s) : match_at(pattern, s, i) # NoMatch

\* C11: the clean-up of extract_and_clean_text is idempotent: cleaning the
\* text it returned returns that text again.
C11_CleanIdempotent ==
    Len(call_out) = 2 => call_out[2] = call_out[1]

\* C14: the cleaned text has no header or footer line, no [n] reference
\* marker, no URL, no blank line and no run of two or more blanks, and the
\* page text of the example cleans to "Hello world".
C14_CleanOutput ==
    Cleaned =>
        LET final_text == call_out[1]
            lines == splitlines(final_text)
        IN  /\ \A k \in 1..Len(lines) : lines[k] \notin HEADERS_FOOTERS_TO_REMOVE
            /\ ~Matches("ref_pattern", final_text)
            /\ ~Matches("url_pattern", final_text)
            /\ \A k \in 1..Len(lines) : strip(lines[k]) # <<>>
            /\ \A i \in 1..(Len(final_text) - 1) :
                   ~(final_text[i] = " " /\ final_text[i + 1] = " ")
            /\ call_in[1] = ExamplePageText =>
                   final_text = <<"H", "e", "l", "l", "o", " ", "w", "o", "r", "l", "d">>

\* C12: extract_between_markers returns None when the start marker is absent
\* or no end marker occurs after the first start marker; otherwise it returns
\* the text between the first start marker and the first end marker after
\* it, without the white space at its two ends.
Trimmed(r, t) ==
    /\ r = <<>> \/ (~IsSpace(r[1]) /\ ~IsSpace(r[Len(r)]))
    /\ \E i \in 0..Len(t) : \E j \in i..Len(t) :
           /\ SubSeq(t, i + 1, j) = r
           /\ \A k \in (1..i) \cup ((j + 1)..Len(t)) : IsSpace(t[k])
StartsOf(text, start_marker) == {i \in 1..Len(text) : OccursAt(text, start_marker, i)}
EndsAfter(text, start_marker, end_marker) ==
    {j \in (Min(StartsOf(text, start_marker)) + Len(start_marker))..Len(text) :
        OccursAt(text, end_marker, j)}
Between(text, start_marker, end_marker) ==
    SubSeq(text, Min(StartsOf(text, start_marker)) + Len(start_marker),
           Min(EndsAfter(text, start_marker, end_marker)) - 1)
C12_BetweenMarkers ==
    call_out # CallIdle =>
        LET text == call_in[1]
            start_marker == call_in[2]
            end_marker == call_in[3]
        IN  IF StartsOf(text, start_marker) = {} THEN call_out[1] = None
            ELSE IF EndsAfter(text, start_marker, end_marker) = {} THEN call_out[1] = None
            ELSE /\ call_out[1] # None
                 /\ Trimmed(call_out[1][1], Between(text, start_marker, end_marker))

\* C12 happens: a block was found whose text has white space at its ends,
\* and the text returned is what is left of it.
C12_Witness ==
    /\ call_out # CallIdle
    /\ call_out[1] # None
    /\ call_out[1][1] # <<>>
    /\ Len(call_out[1][1]) < Len(Between(call_in[1], call_in[2], call_in[3]))

\* C13: every line of the topics block whose first non-blank characters are
\* "//" is gone from the text that is parsed and the other lines are kept in
\* their order (an empty last line leaves no trace in the joined text); the
\* topics returned are a list or None, and they are None whenever the text
\* left is not a JSON array.
FirstNonBlankIsComment(line) ==
    \E k \in 1..(Len(line) - 1) :
        /\ line[k] = "/"
        /\ line[k + 1] = "/"
        /\ \A m \in 1..(k - 1) : IsSpace(line[m])
\* The lines of the block that are no comment lines.
KeptLines(lines) ==
    {k \in 1..Len(lines) : ~FirstNonBlankIsComment(lines[k])}
C13_TopicsParse ==
    call_out # CallIdle =>
        LET block == splitlines(call_in[1])
            parsed_text == call_out[1]
            parsed_lines == splitlines(parsed_text)
            topics == call_out[2]
            body == strip(parsed_text)
        IN  /\ \A k \in 1..Len(parsed_lines) : ~FirstNonBlankIsComment(parsed_lines[k])
            /\ \E f \in [1..Len(parsed_lines) -> KeptLines(block)] :
                   /\ \A k \in 1..Len(parsed_lines) : parsed_lines[k] = block[f[k]]
                   /\ \A k \in 1..(Len(parsed_lines) - 1) : f[k] < f[k + 1]
            /\ Len(parsed_lines) <= Cardinality(KeptLines(block))
            /\ Len(parsed_lines) >= Cardinality(KeptLines(block)) - 1
            /\ topics # None => topics[1].kind = "list"
            /\ topics # None => body # <<>> /\ body[1] = "[" /\ body[Len(body)] = "]"
            /\ (topics # None) <=> (json_loads(parsed_text).ok /\ json_loads(parsed_text).kind = "list")

\* C13 happens: a block with a comment line and a JSON array was parsed to a
\* list.
C13_Witness ==
    /\ call_out # CallIdle
    /\ \E k \in 1..Len(splitlines(call_in[1])) : FirstNonBlankIsComment(splitlines(call_in[1])[k])
    /\ call_out[2] # None
    /\ call_out[2][1].kind = "list"

\* C13 happens as well: a block that parses to a JSON object was rejected.
C13_ObjectRejected ==
    /\ call_out # CallIdle
    /\ json_loads(call_out[1]).ok
    /\ json_loads(call_out[1]).kind = "dict"
    /\ call_out[2] = None

\* ------------------------------------------- claims on the application
per_file_details == processing_stats.per_file_details
RunEnded == gui_pc = "idle" /\ exit_how # "none"
IsCritical(details) == details.filename = "Processing Loop"
NoCriticalError == \A k \in 1..Len(per_file_details) : ~IsCritical(per_file_details[k])
Attempted == 1..processing_stats.processed_count
\* The detail entries and the dataset lines of the file at position i.
DetailsOf(i) == {k \in 1..Len(per_file_details) : per_file_details[k].index = i}
LinesOf(i) == {k \in 1..Len(dataset) : dataset[k].index = i}
RecordsOf(i) == {k \in LinesOf(i) : dataset[k].complete}
StatusOf(i) == per_file_details[CHOOSE k \in DetailsOf(i) : TRUE].status
ReasonOf(i) == per_file_details[CHOOSE k \in DetailsOf(i) : TRUE].reason

FailureReasons ==
    {"Text extraction/cleaning failed", "Gemini generation failed",
     "JSON writing error", "Summary generated (Topics parsing failed)"}
LoopGoesOn ==
    (gui_pc = "finally" /\ NoCriticalError) =>
        /\ processing_stats.processed_count = Len(pdf_files)
        /\ \A i \in 1..Len(pdf_files) : Cardinality(DetailsOf(i)) = 1
C16_FailureIsFail ==
    /\ \A k \in 1..Len(per_file_details) :
           per_file_details[k].reason \in FailureReasons
               => per_file_details[k].status = "FAIL"
    /\ LoopGoesOn

\* C16, amended: a file whose extraction, API call or record write failed, or
\* whose response lacks a block, is recorded as FAIL; a file whose topics
\* block does not parse to a list is recorded as SUCCESS with the reason
\* "Summary generated (Topics parsing failed)" and null topics in its record;
\* in each case the loop goes on to the files after it.
C16_FailureIsLocal ==
    /\ \A k \in 1..Len(per_file_details) :
        LET details == per_file_details[k]
        IN  /\ details.reason \in FailureReasons \ {"Summary generated (Topics parsing failed)"}
                => details.status = "FAIL"
            /\ details.reason = "Summary generated (Topics parsing failed)"
                => /\ details.status = "SUCCESS"
                   /\ \A n \in LinesOf(details.index) :
                          dataset[n].gemini_topics = None /\ dataset[n].gemini_summary # None
            /\ details.status \in {"SUCCESS", "SKIP", "FAIL"}
    /\ LoopGoesOn

\* C16 happens: the extraction of the first file failed and the second file
\* was processed to its end.
C16_Witness ==
    /\ gui_pc = "finally"
    /\ NoCriticalError
    /\ Len(per_file_details) = 2
    /\ per_file_details[1].reason = "Text extraction/cleaning failed"
    /\ per_file_details[2].status = "SUCCESS"

\* C17: once process_files has set processing_active and has returned (after
\* the loop, after a critical error, after the log path could not be derived
\* or the log file or the dataset file not be opened), processing_active is
\* False, the dataset file is not open and log_file_handle is None.
C17_ClosedOnReturn ==
    exit_how = "returned" =>
        /\ ~processing_active
        /\ jsonl_outfile # "open"
        /\ log_file_handle = "None"

\* C17 happens: process_files returned after a critical error in the loop,
\* with the dataset file opened before.
C17_Witness ==
    /\ exit_how = "returned"
    /\ ~NoCriticalError
    /\ jsonl_outfile = "closed"
    /\ processing_stats.processed_count >= 1

\* C18: no file gets more than one completion request, and the text embedded
\* in a prompt has at most PROMPT_TEXT_CHARS characters.
C18_OneBoundedRequest ==
    /\ \A j \in 1..Len(requests), k \in 1..Len(requests) :
           requests[j].index = requests[k].index => j = k
    /\ \A k \in 1..Len(requests) : requests[k].chars <= PROMPT_TEXT_CHARS

\* C18 happens: a text of more than PROMPT_TEXT_CHARS characters was sent and
\* the request for the file after it as well.
C18_Witness ==
    /\ Len(requests) = 2
    /\ requests[1].chars = PROMPT_TEXT_CHARS
    /\ requests[1].index # requests[2].index

\* ------------------------------------------------- claims on the tasks
Opened == {i \in TaskIds : tasks[i].new_page_calls > 0 /\ tasks[i].fault # "new_page"}

AllPermitsFree == GatherReturns /\ semaphore = CONCURRENCY_LIMIT
C20_DownloadsTerminate == (pc = "gather") ~> (pc = "gather" /\ AllPermitsFree)

\* C20 happens: the tasks of a year with more releases than permits are all
\* done, one of them after a failure, and the permits are free.
C20_Witness ==
    /\ pc = "gather"
    /\ Len(tasks) > CONCURRENCY_LIMIT
    /\ AllPermitsFree
    /\ \E i \in TaskIds : tasks[i].fault # "none"

\* ---------------------------------------------- claims on the response
\* A block is present: its start marker occurs and its end marker occurs
\* somewhere after it.
BlockPresent(text, start_marker, end_marker) ==
    \E i \in 1..Len(text) :
        /\ OccursAt(text, start_marker, i)
        /\ \E j \in (i + Len(start_marker))..Len(text) : OccursAt(text, end_marker, j)
BothBlocks(text) ==
    /\ BlockPresent(text, SUMMARY_START, SUMMARY_END)
    /\ BlockPresent(text, TOPICS_JSON_START, TOPICS_JSON_END)

Requested(i) == {k \in 1..Len(requests) : requests[k].index = i}
LastAttempted == processing_stats.processed_count
\* The file went on to step 3 of the loop, the call of
\* generate_summary_and_topics of line 429.
WentOn(i) ==
    \/ gui_pc \in {"api", "write"} /\ file_index = i
    \/ /\ DetailsOf(i) # {}
       /\ ReasonOf(i) \in {"Summary generated", "Summary generated (Topics parsing failed)",
                           "Gemini generation failed", "JSON writing error"}

DateWisePlace(path, name) ==
    /\ path[3] = name
    /\ \E relid \in PageItemIds, day \in 1..31 :
           name = <<"P", "I", "B", "_">> \o relid \o path[1] \o path[2]
                      \o <<"_">> \o day_str(day) \o <<".", "p", "d", "f">>

\* C23: the output folders are empty at the start and only the scraper
\* writes to them; then every PDF of the collective folder is in its
\* date-wise folder as well.
C23_CollectiveWithinDateWise ==
    \A name \in collective_files : \E path \in date_files : DateWisePlace(path, name)

\* C23 happens: in the last year the collective folder holds PDFs, among
\* them one of an earlier year, and the date-wise folders hold a PDF whose
\* copy to the collective folder failed.
C23_Witness ==
    /\ year = END_YEAR
    /\ \E name \in collective_files, path \in date_files :
           DateWisePlace(path, name) /\ path[1] # str(END_YEAR)
    /\ \E path \in date_files : path[3] \notin collective_files

\* The loop is done with the file at position i.
Finished(i) == i \in Attempted /\ ~(gui_pc \in {"api", "write"} /\ file_index = i)
\* A critical error ended the loop at the file at position i.
Struck(i) == ~NoCriticalError /\ i = LastAttempted
\* The entry of a file: one of the three statuses, SUCCESS exactly when a
\* record with a summary is in the dataset.
EntryInOrder(i) ==
    /\ Cardinality(DetailsOf(i)) = 1
    /\ StatusOf(i) \in {"SUCCESS", "SKIP", "FAIL"}
    /\ StatusOf(i) = "SUCCESS" <=>
           \E k \in RecordsOf(i) : dataset[k].gemini_summary # None
SumIsAttempted ==
    (exit_how = "returned" /\ final_status_msg # None /\ NoCriticalError) =>
        final_status_msg[1].success + final_status_msg[1].skipped
            + final_status_msg[1].failed = final_status_msg[1].processed

C25_ListFixedWhileActive ==
    /\ [][processing_active => pdf_files' = pdf_files]_vars
    /\ [][processing_active =>
              processing_stats'.total_files_in_list = processing_stats.total_files_in_list]_vars
    /\ [](processing_active =>
              processing_stats.processed_count <= processing_stats.total_files_in_list)

InList(f) == \E k \in 1..Len(pdf_files) : pdf_files[k] = f

\* C26: the file list holds normalized paths, none of them twice; adding a
\* path whose normalized form is in the list leaves the list as it is, and
\* after clear_files has cleared it the list is empty.
C26_NoPathTwice ==
    /\ \A j \in 1..Len(pdf_files), k \in 1..Len(pdf_files) :
           pdf_files[j] = pdf_files[k] => j = k
    /\ \A k \in 1..Len(pdf_files) :
           \A c \in 1..Len(pdf_files[k]) : pdf_files[k][c] # "."
    /\ \A f \in DialogPaths :
           InList(normpath(f)) => extended(pdf_files, <<f>>) = pdf_files
    /\ notice = "cleared" => pdf_files = <<>>
    /\ notice = "Info: already in the list" => pdf_files # <<>>

\* C26 happens: the list holds two files of the same name from two folders,
\* and the last add-files brought only paths that were in the list.
C26_Witness ==
    /\ pdf_files = << <<"d", "a.pdf">>, <<"e", "a.pdf">> >>
    /\ notice = "Info: already in the list"
====
